---------------------------- MODULE Spec2Model ----------------------------
(***************************************************************************)
(* Model of the NCI GDC MCP server (src/src/index.ts): the query relay     *)
(* executeNciGdcGraphQLQuery, the request it builds, the classification of *)
(* the upstream response and the envelopes it returns.                     *)
(*                                                                         *)
(* Text is a TLA+ string; slice, concatenation and length are the string   *)
(* operators of Sequences.  A JavaScript value is a pair <<tag, payload>>: *)
(*   <<"undefined", 0>>  <<"null", 0>>  <<"bool", b>>  <<"num", n>>        *)
(*   <<"str", s>>  <<"arr", <<v1, ...>>>>  <<"obj", <<<<k1, v1>>, ...>>>>  *)
(* An object keeps its members in property order, as JavaScript does.      *)
(***************************************************************************)
EXTENDS Integers, Sequences, FiniteSets, TLC

(***************************************************************************)
(* JavaScript values                                                       *)
(***************************************************************************)
JUndefined == <<"undefined", 0>>
JNull == <<"null", 0>>
JBool(b) == <<"bool", b>>
JNum(n) == <<"num", n>>
JStr(s) == <<"str", s>>
JArr(items) == <<"arr", items>>
JObj(members) == <<"obj", members>>

Tag(j) == j[1]
Payload(j) == j[2]

Min(a, b) == IF a <= b THEN a ELSE b

\* String.prototype.slice(0, n) for n >= 0: the first min(n, length) characters.
Slice(s, n) == SubSeq(s, 1, Min(n, Len(s)))

Drop(s, n) == SubSeq(s, n + 1, Len(s))

StartsWith(s, p) == Len(s) >= Len(p) /\ SubSeq(s, 1, Len(p)) = p

\* Object.keys(o) of an object value: its own property names, in order.
ObjectKeys(o) == [k \in 1..Len(Payload(o)) |-> Payload(o)[k][1]]

HasKey(o, key) == \E k \in 1..Len(Payload(o)) : Payload(o)[k][1] = key

\* o[key]: the property's value, undefined when the object has no such key.
Get(o, key) ==
    IF HasKey(o, key)
    THEN Payload(o)[CHOOSE k \in 1..Len(Payload(o)) : Payload(o)[k][1] = key][2]
    ELSE JUndefined

\* ToBoolean of the values that reach a condition in the relay.
Truthy(j) ==
    CASE Tag(j) \in {"undefined", "null"} -> FALSE
      [] Tag(j) = "bool" -> Payload(j)
      [] Tag(j) = "num" -> Payload(j) # 0
      [] Tag(j) = "str" -> Payload(j) # ""
      [] OTHER -> TRUE

(***************************************************************************)
(* Number and string formatting                                            *)
(***************************************************************************)
Digits == "0123456789"

DigitChar(d) == SubSeq(Digits, d + 1, d + 1)

IsDigit(c) == \E d \in 0..9 : DigitChar(d) = c

DigitVal(c) == CHOOSE d \in 0..9 : DigitChar(d) = c

RECURSIVE NatToString(_)
NatToString(n) ==
    IF n < 10 THEN DigitChar(n) ELSE NatToString(n \div 10) \o DigitChar(n % 10)

\* Number::toString of an integer, as a template literal and JSON.stringify print it.
NumberToString(n) == IF n < 0 THEN "-" \o NatToString(0 - n) ELSE NatToString(n)

\* JSON's QuoteJSONString: the characters JSON requires to be escaped.
QuoteChar(c) ==
    CASE c = "\"" -> "\\\""
      [] c = "\\" -> "\\\\"
      [] c = "\n" -> "\\n"
      [] c = "\t" -> "\\t"
      [] OTHER -> c

\* The position of the first character of s that is in set, 0 when there is none.
FirstIndex(s, set) ==
    LET hits == {k \in 1..Len(s) : SubSeq(s, k, k) \in set}
    IN  IF hits = {} THEN 0 ELSE CHOOSE k \in hits : \A m \in hits : k <= m

EscapedChars == {"\"", "\\", "\n", "\t"}

\* Runs of characters that need no escape are copied whole.
RECURSIVE QuoteChars(_)
QuoteChars(s) ==
    LET k == FirstIndex(s, EscapedChars) IN
    IF k = 0 THEN s
    ELSE SubSeq(s, 1, k - 1) \o QuoteChar(SubSeq(s, k, k)) \o QuoteChars(Drop(s, k))

Quote(s) == "\"" \o QuoteChars(s) \o "\""

\* String(value) of a primitive value.
StringOf(j) ==
    CASE Tag(j) = "str" -> Payload(j)
      [] Tag(j) = "num" -> NumberToString(Payload(j))
      [] Tag(j) = "bool" -> (IF Payload(j) THEN "true" ELSE "false")
      [] OTHER -> Tag(j)

(***************************************************************************)
(* JSON.stringify(value), compact form                                     *)
(***************************************************************************)
RECURSIVE JSONStringify(_)
RECURSIVE StringifyItems(_, _)
RECURSIVE StringifyMembers(_, _)

\* Array elements: undefined prints as null.
StringifyItems(items, k) ==
    IF k > Len(items) THEN ""
    ELSE (IF k > 1 THEN "," ELSE "")
         \o (IF Tag(items[k]) = "undefined" THEN "null" ELSE JSONStringify(items[k]))
         \o StringifyItems(items, k + 1)

\* Object members: a member whose value is undefined is left out.
StringifyMembers(members, first) ==
    IF members = <<>> THEN ""
    ELSE IF Tag(Head(members)[2]) = "undefined"
         THEN StringifyMembers(Tail(members), first)
         ELSE (IF first THEN "" ELSE ",")
              \o Quote(Head(members)[1]) \o ":" \o JSONStringify(Head(members)[2])
              \o StringifyMembers(Tail(members), FALSE)

JSONStringify(j) ==
    CASE Tag(j) = "null" -> "null"
      [] Tag(j) = "bool" -> (IF Payload(j) THEN "true" ELSE "false")
      [] Tag(j) = "num" -> NumberToString(Payload(j))
      [] Tag(j) = "str" -> Quote(Payload(j))
      [] Tag(j) = "arr" -> "[" \o StringifyItems(Payload(j), 1) \o "]"
      [] Tag(j) = "obj" -> "{" \o StringifyMembers(Payload(j), TRUE) \o "}"

(***************************************************************************)
(* JSON.stringify(value, null, space), indented form                       *)
(***************************************************************************)
RECURSIVE Spaces(_)
\* The gap of a numeric space argument: that many spaces, ten at most.
Spaces(n) == IF n <= 0 THEN "" ELSE " " \o Spaces(n - 1)

Gap(space) == Spaces(Min(space, 10))

\* The members JSON.stringify writes: those whose value is not undefined.
WrittenMembers(members) == SelectSeq(members, LAMBDA m : Tag(m[2]) # "undefined")

RECURSIVE JSONStringifyIndented(_, _, _)
RECURSIVE IndentItems(_, _, _, _)
RECURSIVE IndentMembers(_, _, _, _)

\* Array elements, one per line at the inner indent.
IndentItems(items, k, indent, gap) ==
    IF k > Len(items) THEN ""
    ELSE (IF k > 1 THEN ",\n" ELSE "") \o indent
         \o (IF Tag(items[k]) = "undefined" THEN "null"
             ELSE JSONStringifyIndented(items[k], indent, gap))
         \o IndentItems(items, k + 1, indent, gap)

\* Object members, one per line at the inner indent, a space after the colon.
IndentMembers(members, k, indent, gap) ==
    IF k > Len(members) THEN ""
    ELSE (IF k > 1 THEN ",\n" ELSE "") \o indent
         \o Quote(members[k][1]) \o ": "
         \o JSONStringifyIndented(members[k][2], indent, gap)
         \o IndentMembers(members, k + 1, indent, gap)

\* indent is the indent of the line the value starts on.
JSONStringifyIndented(j, indent, gap) ==
    CASE Tag(j) = "arr" ->
            IF Payload(j) = <<>> THEN "[]"
            ELSE "[\n" \o IndentItems(Payload(j), 1, indent \o gap, gap)
                 \o "\n" \o indent \o "]"
      [] Tag(j) = "obj" ->
            IF WrittenMembers(Payload(j)) = <<>> THEN "{}"
            ELSE "{\n" \o IndentMembers(WrittenMembers(Payload(j)), 1, indent \o gap, gap)
                 \o "\n" \o indent \o "}"
      [] OTHER -> JSONStringify(j)

(***************************************************************************)
(* JSON.parse(text): recursive descent over the text.  Numbers are the     *)
(* integers; the escapes are the ones Quote writes, plus the solidus.      *)
(* A parser result is [ok, val, rest].                                     *)
(***************************************************************************)
ParseFail == [ok |-> FALSE, val |-> JUndefined, rest |-> ""]

ParseOk(v, r) == [ok |-> TRUE, val |-> v, rest |-> r]

IsWs(c) == c \in {" ", "\n", "\t", "\r"}

RECURSIVE SkipWs(_)
SkipWs(s) == IF s # "" /\ IsWs(Head(s)) THEN SkipWs(Tail(s)) ELSE s

\* The characters of a string literal after its opening quote: a run of plain
\* characters, then the closing quote, an escape or a control character.
StringStops == {"\"", "\\", "\n", "\t", "\r"}

RECURSIVE ParseChars(_, _)

\* The character after a backslash.
ParseEscape(rest, acc) ==
    IF rest = "" THEN ParseFail
    ELSE CASE Head(rest) \in {"\"", "\\", "/"} -> ParseChars(Tail(rest), acc \o Head(rest))
           [] Head(rest) = "n" -> ParseChars(Tail(rest), acc \o "\n")
           [] Head(rest) = "t" -> ParseChars(Tail(rest), acc \o "\t")
           [] OTHER -> ParseFail

\* The character c that ended a run of plain characters, and the text after it.
ParseStop(c, rest, acc) ==
    CASE c = "\"" -> ParseOk(JStr(acc), rest)
      [] c = "\\" -> ParseEscape(rest, acc)
      [] OTHER -> ParseFail

ParseRun(s, acc, k) ==
    IF k = 0 THEN ParseFail
    ELSE ParseStop(SubSeq(s, k, k), Drop(s, k), acc \o SubSeq(s, 1, k - 1))

ParseChars(s, acc) == ParseRun(s, acc, FirstIndex(s, StringStops))

RECURSIVE ParseDigits(_, _)
ParseDigits(s, acc) ==
    IF s # "" /\ IsDigit(Head(s))
    THEN ParseDigits(Tail(s), acc * 10 + DigitVal(Head(s)))
    ELSE [val |-> acc, rest |-> s]

\* (0 | [1-9][0-9]*)
ParseNatural(s) ==
    IF s = "" \/ ~IsDigit(Head(s)) THEN [val |-> -1, rest |-> s]
    ELSE IF Head(s) = "0" THEN [val |-> 0, rest |-> Tail(s)]
    ELSE ParseDigits(s, 0)

NumberResult(neg, d) ==
    IF d.val < 0 THEN ParseFail
    ELSE ParseOk(JNum(IF neg THEN 0 - d.val ELSE d.val), d.rest)

\* -? (0 | [1-9][0-9]*)
ParseNumber(s) ==
    IF StartsWith(s, "-") THEN NumberResult(TRUE, ParseNatural(Tail(s)))
    ELSE NumberResult(FALSE, ParseNatural(s))

\* A repeated key keeps its first position and takes the last value.
SetMember(members, key, val) ==
    IF \E k \in 1..Len(members) : members[k][1] = key
    THEN [k \in 1..Len(members) |->
            IF members[k][1] = key THEN <<key, val>> ELSE members[k]]
    ELSE Append(members, <<key, val>>)

RECURSIVE ParseValue(_)
RECURSIVE ParseItems(_, _)
RECURSIVE ParseMembers(_, _)

\* After an array element: "," or "]".
ItemsSeparator(t, acc) ==
    IF t = "" THEN ParseFail
    ELSE CASE Head(t) = "," -> ParseItems(Tail(t), acc)
           [] Head(t) = "]" -> ParseOk(JArr(acc), Tail(t))
           [] OTHER -> ParseFail

ItemsAfterValue(r, acc) ==
    IF ~r.ok THEN ParseFail ELSE ItemsSeparator(SkipWs(r.rest), Append(acc, r.val))

\* After "[" or ",": a value, then "," or "]".
ParseItems(s, acc) == ItemsAfterValue(ParseValue(s), acc)

\* After an object member: "," or "}".
MembersSeparator(t, acc) ==
    IF t = "" THEN ParseFail
    ELSE CASE Head(t) = "," -> ParseMembers(Tail(t), acc)
           [] Head(t) = "}" -> ParseOk(JObj(acc), Tail(t))
           [] OTHER -> ParseFail

MemberAfterValue(key, r, acc) ==
    IF ~r.ok THEN ParseFail
    ELSE MembersSeparator(SkipWs(r.rest), SetMember(acc, key, r.val))

MemberValue(key, s, acc) ==
    IF s = "" \/ Head(s) # ":" THEN ParseFail
    ELSE MemberAfterValue(key, ParseValue(Tail(s)), acc)

MemberColon(k, acc) ==
    IF ~k.ok THEN ParseFail ELSE MemberValue(Payload(k.val), SkipWs(k.rest), acc)

MemberKey(s, acc) ==
    IF s = "" \/ Head(s) # "\"" THEN ParseFail
    ELSE MemberColon(ParseChars(Tail(s), ""), acc)

\* After "{" or ",": "key" : value, then "," or "}".
ParseMembers(s, acc) == MemberKey(SkipWs(s), acc)

\* After "{": the empty object or the members.
ObjectBody(s) ==
    IF StartsWith(s, "}") THEN ParseOk(JObj(<<>>), Tail(s)) ELSE ParseMembers(s, <<>>)

\* After "[": the empty array or the elements.
ArrayBody(s) ==
    IF StartsWith(s, "]") THEN ParseOk(JArr(<<>>), Tail(s)) ELSE ParseItems(s, <<>>)

ValueAt(s) ==
    IF s = "" THEN ParseFail
    ELSE CASE Head(s) = "{" -> ObjectBody(SkipWs(Tail(s)))
           [] Head(s) = "[" -> ArrayBody(SkipWs(Tail(s)))
           [] Head(s) = "\"" -> ParseChars(Tail(s), "")
           [] StartsWith(s, "true") -> ParseOk(JBool(TRUE), Drop(s, 4))
           [] StartsWith(s, "false") -> ParseOk(JBool(FALSE), Drop(s, 5))
           [] StartsWith(s, "null") -> ParseOk(JNull, Drop(s, 4))
           [] Head(s) = "-" \/ IsDigit(Head(s)) -> ParseNumber(s)
           [] OTHER -> ParseFail

ParseValue(s) == ValueAt(SkipWs(s))

\* Only white space may follow the value.
ParsedWhole(r) ==
    IF r.ok /\ SkipWs(r.rest) = ""
    THEN [ok |-> TRUE, val |-> r.val]
    ELSE [ok |-> FALSE, val |-> JUndefined]

\* JSON.parse: ok is FALSE where JSON.parse throws a SyntaxError.
JSONParse(text) == ParsedWhole(ParseValue(text))

(***************************************************************************)
(* The agent's configuration and the outbound request                      *)
(***************************************************************************)
GDC_GRAPHQL_ENDPOINT == "https://api.gdc.cancer.gov/v0/graphql"

\* The fields of the agent that the callback and the relay can reach through
\* this, as the constructor leaves them.
NewAgent == [GDC_GRAPHQL_ENDPOINT |-> GDC_GRAPHQL_ENDPOINT]

\* const headers = { ... }
RequestHeaders ==
    << <<"Content-Type", "application/json">>,
       <<"Accept", "application/json">>,
       <<"User-Agent",
         "NciGdcMCP/0.1.0 (ModelContextProtocol; +https://modelcontextprotocol.io)">> >>

\* BuildBodyData without the Object.keys(variables).length > 0 test.
BuildBodyData_TruthyOnly(query, variables) ==
    IF Truthy(variables)
    THEN JObj(<< <<"query", JStr(query)>>, <<"variables", variables>> >>)
    ELSE JObj(<< <<"query", JStr(query)>> >>)

\* BuildBodyData with the variables passed as their JSON text.
BuildBodyData_Stringified(query, variables) ==
    IF Truthy(variables) /\ Len(ObjectKeys(variables)) > 0
    THEN JObj(<< <<"query", JStr(query)>>,
                 <<"variables", JStr(JSONStringify(variables))>> >>)
    ELSE JObj(<< <<"query", JStr(query)>> >>)

\* const bodyData = { query }; variables is added when it is truthy and has a key.
BuildBodyData(query, variables) ==
    IF Truthy(variables) /\ Len(ObjectKeys(variables)) > 0
    THEN JObj(<< <<"query", JStr(query)>>, <<"variables", variables>> >>)
    ELSE JObj(<< <<"query", JStr(query)>> >>)

\* BuildRequest with the query carried in the URL as well.
BuildRequest_QueryInUrl(this, query, variables) ==
    [url |-> this.GDC_GRAPHQL_ENDPOINT \o "?query=" \o query,
     method |-> "POST",
     headers |-> RequestHeaders,
     body |-> JSONStringify(BuildBodyData(query, variables))]

\* The argument of fetch(this.GDC_GRAPHQL_ENDPOINT, { method, headers, body }).
BuildRequest(this, query, variables) ==
    [url |-> this.GDC_GRAPHQL_ENDPOINT,
     method |-> "POST",
     headers |-> RequestHeaders,
     body |-> JSONStringify(BuildBodyData(query, variables))]

(***************************************************************************)
(* The upstream response (a Fetch API Response)                            *)
(*   hasBody   FALSE for a null body (204, 304)                            *)
(*   text      the body, decoded                                           *)
(*   readFails the body stream errors before it has been read to the end   *)
(*   bodyUsed  the body stream has been disturbed by json() or text()      *)
(*   parsed    what JSON.parse makes of the body text; json() hands it out *)
(*             once it has read the body to its end                        *)
(***************************************************************************)
NoResponse ==
    [status |-> 0, hasBody |-> FALSE, text |-> "", readFails |-> FALSE, bodyUsed |-> FALSE,
     parsed |-> JSONParse("")]

MakeResponse(status, hasBody, text, readFails) ==
    [status |-> status, hasBody |-> hasBody, text |-> text,
     readFails |-> readFails, bodyUsed |-> FALSE, parsed |-> JSONParse(text)]

\* Response.ok
ResponseOk(r) == r.status >= 200 /\ r.status <= 299

\* A thrown value: an Error object with its message, or a thrown string.
ErrorObject(message) == <<"Error", message>>

BodyUsedError ==
    ErrorObject("Body has already been used. It can only be used once. Use tee() first if you need to read it twice.")

StreamError == ErrorObject("Network connection lost.")

SyntaxError == ErrorObject("Unexpected token in JSON")

NullPropertyError == ErrorObject("Cannot read properties of null (reading 'errors')")

\* ConsumeBody of a body that can be read any number of times.
ConsumeBody_ReadAgain(r) ==
    IF ~r.hasBody
    THEN [threw |-> FALSE, error |-> JUndefined, text |-> "", response |-> r]
    ELSE IF r.readFails
    THEN [threw |-> TRUE, error |-> StreamError, text |-> "",
          response |-> [r EXCEPT !.bodyUsed = TRUE]]
    ELSE [threw |-> FALSE, error |-> JUndefined, text |-> r.text,
          response |-> [r EXCEPT !.bodyUsed = TRUE]]

\* Reading a body to its end (the "consume body" steps of json() and text()):
\* a used body rejects, a null body is empty and stays unused, a read disturbs the body.
ConsumeBody(r) ==
    IF r.hasBody /\ r.bodyUsed
    THEN [threw |-> TRUE, error |-> BodyUsedError, text |-> "", response |-> r]
    ELSE IF ~r.hasBody
    THEN [threw |-> FALSE, error |-> JUndefined, text |-> "", response |-> r]
    ELSE IF r.readFails
    THEN [threw |-> TRUE, error |-> StreamError, text |-> "",
          response |-> [r EXCEPT !.bodyUsed = TRUE]]
    ELSE [threw |-> FALSE, error |-> JUndefined, text |-> r.text,
          response |-> [r EXCEPT !.bodyUsed = TRUE]]

\* await response.text()
ResponseText(r) == ConsumeBody(r)

\* await response.json(): the consumed text, parsed.
ResponseJson(r) ==
    LET c == ConsumeBody(r)
        p == IF r.hasBody THEN r.parsed ELSE JSONParse("")
    IN  IF c.threw
        THEN [threw |-> TRUE, error |-> c.error, val |-> JUndefined, response |-> c.response]
        ELSE IF ~p.ok
        THEN [threw |-> TRUE, error |-> SyntaxError, val |-> JUndefined,
              response |-> c.response]
        ELSE [threw |-> FALSE, error |-> JUndefined, val |-> p.val, response |-> c.response]

(***************************************************************************)
(* The Worker's fetch handler (export default { fetch }): it routes a      *)
(* request by the path of its URL to one of the two MCP transports of the  *)
(* agent, or answers 404 itself.  The repository holds the handler in      *)
(* three source variants; each is modelled from its own text.              *)
(***************************************************************************)
\* new URL(url).pathname of an absolute http(s) URL: what follows the authority,
\* up to the query or the fragment; "/" when the URL has no path.
AfterAuthority(rest) ==
    IF FirstIndex(rest, {"/", "?", "#"}) = 0 THEN ""
    ELSE Drop(rest, FirstIndex(rest, {"/", "?", "#"}) - 1)

PathOf(tail) ==
    IF FirstIndex(tail, {"?", "#"}) = 0 THEN tail
    ELSE SubSeq(tail, 1, FirstIndex(tail, {"?", "#"}) - 1)

PathnameOf(url) ==
    IF PathOf(AfterAuthority(Drop(url, FirstIndex(url, {":"}) + 2))) = "" THEN "/"
    ELSE PathOf(AfterAuthority(Drop(url, FirstIndex(url, {":"}) + 2)))

\* No request handled yet.
NoReply == [transport |-> "none", status |-> 0, headers |-> <<>>, body |-> "", log |-> <<>>]

\* return handler.fetch(request, env, ctx): the request is handed to a transport of
\* the agent, whose answer is the transport's own.
HandedTo(transport) ==
    [transport |-> transport, status |-> 0, headers |-> <<>>, body |-> "", log |-> <<>>]

NotFoundText ==
    "NCI GDC MCP Server - Path not found.\nAvailable MCP paths:\n- /mcp (for Streamable HTTP transport)\n- /sse (for Server-Sent Events transport)"

\* console.error(line); return new Response(text, { status: 404, headers })
NotFoundResponse(line) ==
    [transport |-> "none", status |-> 404,
     headers |-> << <<"Content-Type", "text/plain">> >>,
     body |-> NotFoundText, log |-> <<line>>]

\* Fetch that hands over the two exact paths only.
Fetch_ExactPathsOnly(url) ==
    IF PathnameOf(url) = "/mcp" THEN HandedTo("serve")
    ELSE IF PathnameOf(url) = "/sse" THEN HandedTo("serveSSE")
    ELSE NotFoundResponse("NCI GDC MCP Server. Requested path " \o PathnameOf(url)
                          \o " not found. Available endpoints: /mcp (HTTP), /sse (SSE).")

\* src/index.ts
Fetch(url) ==
    IF PathnameOf(url) = "/mcp" \/ StartsWith(PathnameOf(url), "/mcp/")
    THEN HandedTo("serve")
    ELSE IF PathnameOf(url) = "/sse" \/ StartsWith(PathnameOf(url), "/sse/")
    THEN HandedTo("serveSSE")
    ELSE NotFoundResponse("NCI GDC MCP Server. Requested path " \o PathnameOf(url)
                          \o " not found. Available endpoints: /mcp (HTTP), /sse (SSE).")

\* Fetch_part_000 matching the streamable HTTP path by prefix alone.
Fetch_part_000_PrefixAlone(url) ==
    IF StartsWith(PathnameOf(url), "/mcp")
    THEN HandedTo("serve")
    ELSE IF PathnameOf(url) = "/sse" \/ StartsWith(PathnameOf(url), "/sse/")
    THEN HandedTo("serveSSE")
    ELSE NotFoundResponse("NCI GDC MCP Server. Requested path " \o PathnameOf(url)
                          \o " not found. Available transports: /mcp (HTTP), /sse (SSE).")

\* src/unnamed/part_000
Fetch_part_000(url) ==
    IF PathnameOf(url) = "/mcp" \/ StartsWith(PathnameOf(url), "/mcp/")
    THEN HandedTo("serve")
    ELSE IF PathnameOf(url) = "/sse" \/ StartsWith(PathnameOf(url), "/sse/")
    THEN HandedTo("serveSSE")
    ELSE NotFoundResponse("NCI GDC MCP Server. Requested path " \o PathnameOf(url)
                          \o " not found. Available transports: /mcp (HTTP), /sse (SSE).")

\* The source listed in src/CITATION.md
Fetch_CITATION(url) ==
    IF PathnameOf(url) = "/mcp" \/ StartsWith(PathnameOf(url), "/mcp/")
    THEN HandedTo("serve")
    ELSE IF PathnameOf(url) = "/sse" \/ StartsWith(PathnameOf(url), "/sse/")
    THEN HandedTo("serveSSE")
    ELSE NotFoundResponse("NCI GDC MCP Server. Requested path " \o PathnameOf(url)
                          \o " not found. Available endpoints: /mcp (HTTP), /sse (SSE).")

Variants == {"index.ts", "part_000", "CITATION.md"}

FetchOf(variant, url) ==
    CASE variant = "index.ts" -> Fetch(url)
      [] variant = "part_000" -> Fetch_part_000(url)
      [] variant = "CITATION.md" -> Fetch_CITATION(url)

\* The requests: paths of one or two segments, with and without a query.
Origins == {"https://gdc.example.workers.dev", "http://localhost:8787"}

Segments == {"", "mcp", "sse", "mcpx", "message"}

Paths ==
    {""} \cup {"/" \o a : a \in Segments}
         \cup {"/" \o a \o "/" \o b : a \in Segments, b \in Segments}

Searches == {"", "?next=/sse/#/mcp"}

Urls == {o \o p \o q : o \in Origins, p \in Paths, q \in Searches}

(***************************************************************************)
(* Inputs: the tool's arguments and the upstream outcomes                  *)
(***************************************************************************)
\* How many invocations one caller makes.
MaxCalls == 2

\* The longest upstream body.
MaxBodyLen == 1500

\* The caps of the slices the relay takes.
HttpErrorBodyCap == 500
NonJsonBodyCap == 1000
QueryLogCap == 150
VariablesLogCap == 100
NonJsonLogCap == 500
GraphQLErrorsLogCap == 500

Procs == {1}

RECURSIVE Filler(_)
Filler(n) ==
    IF n = 0 THEN ""
    ELSE IF n % 2 = 0 THEN LET h == Filler(n \div 2) IN h \o h
    ELSE "x" \o Filler(n - 1)

\* A text of n characters whose first and last characters differ from the rest.
TextOfLength(n) == IF n < 2 THEN Filler(n) ELSE "<" \o Filler(n - 2) \o ">"

Queries ==
    { "{ projects { hits { total } } }",
      "query Q($filters: FiltersArgument) {\n  cases(filters: $filters, first: 1) { id note: \"a\\b\" }\n}",
      "{ " \o TextOfLength(QueryLogCap) \o " }" }

\* The optional variables argument: absent, or a mapping of string keys to JSON values.
VariablesInputs ==
    { JUndefined,
      JObj(<<>>),
      JObj(<< <<"first", JNum(5)>>, <<"flag", JBool(FALSE)>>, <<"after", JNull>> >>),
      JObj(<< <<"filters",
                JObj(<< <<"op", JStr("in")>>,
                        <<"content",
                          JObj(<< <<"field", JStr("cases.project.project_id")>>,
                                  <<"value", JArr(<<JStr("TARGET-NBL"), JStr("a \"b\"")>>)>> >>)>> >>)>> >>) }

\* What fetch rejects with when the HTTP call itself fails.
TransportFailures ==
    { ErrorObject("fetch failed"),
      ErrorObject("Network connection lost."),
      JStr("connection reset"),
      JNum(503) }

BodyLengths ==
    { HttpErrorBodyCap - 1, HttpErrorBodyCap, HttpErrorBodyCap + 1, 600,
      NonJsonBodyCap - 1, NonJsonBodyCap, NonJsonBodyCap + 1, MaxBodyLen }

JsonBodies ==
    { "{\"data\": {\"projects\": {\"hits\": {\"total\": 5}}}}",
      "{\"data\":null,\"errors\":[{\"message\":\"Cannot query field \\\"x\\\" on type \\\"Root\\\"\"}]}",
      "{\"data\":{\"a\":[1,-2,true]},\"errors\":[]}",
      "{\"errors\":\"" \o TextOfLength(GraphQLErrorsLogCap) \o "\"}",
      "\"server exploded\"",
      "[{\"message\":\"x\"}]",
      "null",
      "0" }

NonJsonBodies ==
    { "", "not json", "server exploded", "<html>502 Bad Gateway</html>", "{\"data\":" }
    \cup { TextOfLength(n) : n \in BodyLengths }

Bodies == JsonBodies \cup NonJsonBodies

\* Statuses a response with a body arrives with, and the null body statuses.
BodyStatuses == {200, 299, 300, 404, 500}
NullBodyStatuses == {204, 304}

Responses ==
    { MakeResponse(s, TRUE, b, FALSE) : s \in BodyStatuses, b \in Bodies }
    \cup { MakeResponse(s, TRUE, "", TRUE) : s \in BodyStatuses }
    \cup { MakeResponse(s, FALSE, "", FALSE) : s \in NullBodyStatuses }

(***************************************************************************)
(* State: one entry per caller                                             *)
(*   pc        where the caller's invocation is: "idle", awaiting "fetch", *)
(*             awaiting the "errorText", "json" or "text" read of the      *)
(*             body, "done" (the relay returned) or "raised" (an exception *)
(*             left the relay)                                             *)
(*   query, variables   the arguments of the invocation                    *)
(*   sent      the requests the invocation has passed to fetch             *)
(*   failure   the value fetch rejected with                               *)
(*   response  the Response fetch resolved with                            *)
(*   result    the value the relay returned                                *)
(*   log       the lines written with console.error                        *)
(*   calls     the number of invocations the caller has made               *)
(***************************************************************************)
VARIABLES pc, query, variables, sent, failure, response, result, log, calls, output,
          agent, requestUrl, reply

relayVars ==
    <<pc, query, variables, sent, failure, response, result, log, calls, output, agent>>

routeVars == <<requestUrl, reply>>

vars == <<relayVars, routeVars>>

NoResult == <<"none", 0>>

NoFailure == <<"none", 0>>

Local(i) ==
    [pc |-> pc[i], query |-> query[i], variables |-> variables[i], sent |-> sent[i],
     failure |-> failure[i], response |-> response[i], result |-> result[i],
     log |-> log[i], output |-> output[i], this |-> agent]

\* Store with the response kept in one place for all invocations of the agent.
Store_SharedResponse(i, l) ==
    /\ pc' = [pc EXCEPT ![i] = l.pc]
    /\ query' = [query EXCEPT ![i] = l.query]
    /\ variables' = [variables EXCEPT ![i] = l.variables]
    /\ sent' = [sent EXCEPT ![i] = l.sent]
    /\ failure' = [failure EXCEPT ![i] = l.failure]
    /\ response' = [j \in DOMAIN response |-> l.response]
    /\ result' = [result EXCEPT ![i] = l.result]
    /\ log' = [log EXCEPT ![i] = l.log]
    /\ output' = [output EXCEPT ![i] = l.output]
    /\ agent' = l.this

Store(i, l) ==
    /\ pc' = [pc EXCEPT ![i] = l.pc]
    /\ query' = [query EXCEPT ![i] = l.query]
    /\ variables' = [variables EXCEPT ![i] = l.variables]
    /\ sent' = [sent EXCEPT ![i] = l.sent]
    /\ failure' = [failure EXCEPT ![i] = l.failure]
    /\ response' = [response EXCEPT ![i] = l.response]
    /\ result' = [result EXCEPT ![i] = l.result]
    /\ log' = [log EXCEPT ![i] = l.log]
    /\ output' = [output EXCEPT ![i] = l.output]
    /\ agent' = l.this

Fresh(q, v) ==
    [pc |-> "idle", query |-> q, variables |-> v, sent |-> <<>>, failure |-> NoFailure,
     response |-> NoResponse, result |-> NoResult, log |-> <<>>, output |-> NoResult,
     this |-> agent]

\* The agent after construction, seen by the callers of the set given: nothing invoked.
InitOf(callers) ==
    /\ pc = [i \in callers |-> "idle"]
    /\ query = [i \in callers |-> ""]
    /\ variables = [i \in callers |-> JUndefined]
    /\ sent = [i \in callers |-> <<>>]
    /\ failure = [i \in callers |-> NoFailure]
    /\ response = [i \in callers |-> NoResponse]
    /\ result = [i \in callers |-> NoResult]
    /\ log = [i \in callers |-> <<>>]
    /\ calls = [i \in callers |-> 0]
    /\ output = [i \in callers |-> NoResult]
    /\ agent = NewAgent
    /\ requestUrl = ""
    /\ reply = [v \in Variants |-> NoReply]

Init == InitOf(Procs)

(***************************************************************************)
(* The relay, executeNciGdcGraphQLQuery, one operator per stretch of code  *)
(* between two awaits.  Each takes the invocation's state and gives the    *)
(* state at the next await or at the return.                               *)
(***************************************************************************)
\* console.error(line)
ConsoleError(l, line) == [l EXCEPT !.log = Append(@, line)]

\* return value
Return(l, value) == [l EXCEPT !.pc = "done", !.result = value]

\* An exception no try statement of the relay encloses: the relay's promise rejects.
Raise(l, error) == [l EXCEPT !.pc = "raised"]

\* error instanceof Error ? error.message : String(error)
ErrorMessageOf(error) ==
    IF Tag(error) = "Error" THEN Payload(error) ELSE StringOf(error)

\* ClientErrorEnvelope with an extensions member.
ClientErrorEnvelope_WithExtensions(errorMessage) ==
    JObj(<< <<"errors",
              JArr(<< JObj(<< <<"message",
                                JStr("Client-side error: " \o errorMessage)>>,
                              <<"extensions",
                                JObj(<< <<"responseText", JStr(errorMessage)>> >>)>> >>) >>)>> >>)

\* { errors: [ { message } ] }
ClientErrorEnvelope(errorMessage) ==
    JObj(<< <<"errors",
              JArr(<< JObj(<< <<"message",
                                JStr("Client-side error: " \o errorMessage)>> >>) >>)>> >>)

\* { errors: [ { message, extensions: { statusCode, responseText } } ] }
UpstreamErrorEnvelope(message, statusCode, responseText) ==
    JObj(<< <<"errors",
              JArr(<< JObj(<< <<"message", JStr(message)>>,
                              <<"extensions",
                                JObj(<< <<"statusCode", JNum(statusCode)>>,
                                        <<"responseText", JStr(responseText)>> >>)>> >>) >>)>> >>)

HttpErrorMessage(status) == "NCI GDC API HTTP Error " \o NumberToString(status)

NonJsonMessage == "NCI GDC API Error: Non-JSON response."

\* The catch clause of the relay's outer try statement.
OuterCatch(l, error) ==
    LET errorMessage == ErrorMessageOf(error) IN
    Return(ConsoleError(l, "Client-side error during NCI GDC GraphQL request: "
                           \o errorMessage),
           ClientErrorEnvelope(errorMessage))

\* EnclosingTry with the text read of the parse's catch clause outside every try.
EnclosingTry_TextUnguarded(point) ==
    CASE point = "errorText" -> "readErrorBody"
      [] point = "json" -> "parseJson"
      [] point \in {"fetch", "errors"} -> "outer"
      [] OTHER -> "none"

\* The try statement that encloses a point of the relay where an exception can start:
\* the read of an error body and the JSON parse have a try of their own; the fetch,
\* the text read inside the parse's catch clause and the look at responseBody.errors
\* are enclosed by the outer try only.
EnclosingTry(point) ==
    CASE point = "errorText" -> "readErrorBody"
      [] point = "json" -> "parseJson"
      [] point \in {"fetch", "text", "errors"} -> "outer"
      [] OTHER -> "none"

\* throw error at a point that has no try statement of its own.
Throw(l, point, error) ==
    IF EnclosingTry(point) = "outer" THEN OuterCatch(l, error) ELSE Raise(l, error)

\* The tool callback up to its call of the relay: the two log lines.
HandlerEntry(l) ==
    LET l1 == ConsoleError(l, "Executing gdc_graphql_query with query: "
                              \o Slice(l.query, QueryLogCap) \o "...")
    IN  IF Truthy(l.variables)
        THEN ConsoleError(l1, "With variables: "
                              \o Slice(JSONStringify(l.variables), VariablesLogCap) \o "...")
        ELSE l1

\* RelayEntry that keeps the URL of the last request in the agent's endpoint field.
RelayEntry_WritesEndpoint(l) ==
    LET l1 == ConsoleError(l, "Making GraphQL request to: "
                              \o l.this.GDC_GRAPHQL_ENDPOINT)
    IN  [l1 EXCEPT !.pc = "fetch",
                   !.sent = Append(@, BuildRequest(l.this, l.query, l.variables)),
                   !.this.GDC_GRAPHQL_ENDPOINT = @ \o "?"]

\* The relay up to await fetch(...): the request is built and handed to fetch.
RelayEntry(l) ==
    LET l1 == ConsoleError(l, "Making GraphQL request to: "
                              \o l.this.GDC_GRAPHQL_ENDPOINT)
    IN  [l1 EXCEPT !.pc = "fetch",
                   !.sent = Append(@, BuildRequest(l.this, l.query, l.variables))]

\* OnFetchRejected with one more attempt after a first failure.
OnFetchRejected_Retry(l, error) ==
    IF Len(l.sent) < 2
    THEN [l EXCEPT !.failure = error,
                   !.sent = Append(@, BuildRequest(l.this, l.query, l.variables))]
    ELSE Throw([l EXCEPT !.failure = error], "fetch", error)

\* OnFetchRejected that swallows the failure and goes on waiting for a response.
OnFetchRejected_KeepsWaiting(l, error) == [l EXCEPT !.failure = error]

\* fetch rejected.
OnFetchRejected(l, error) == Throw([l EXCEPT !.failure = error], "fetch", error)

\* OnFetchResolved that starts the JSON parse whatever the status.
OnFetchResolved_ParseFirst(l, r) ==
    LET l1 == ConsoleError([l EXCEPT !.response = r],
                           "NCI GDC API response status: " \o NumberToString(r.status))
    IN  [l1 EXCEPT !.pc = "json"]

\* fetch resolved: the status is logged and response.ok picks the branch.
OnFetchResolved(l, r) ==
    LET l1 == ConsoleError([l EXCEPT !.response = r],
                           "NCI GDC API response status: " \o NumberToString(r.status))
    IN  [l1 EXCEPT !.pc = IF ~ResponseOk(r) THEN "errorText" ELSE "json"]

\* OnErrorText without the try around the body read: a failed read is thrown on.
OnErrorText_NoInnerTry(l) ==
    LET c == ResponseText(l.response)
        message == HttpErrorMessage(l.response.status)
        errorText == message \o ": " \o Slice(c.text, HttpErrorBodyCap)
        l1 == [l EXCEPT !.response = c.response]
    IN  IF c.threw THEN Throw(l1, "fetch", c.error)
        ELSE Return(ConsoleError(l1, errorText),
                    UpstreamErrorEnvelope(message, l.response.status, errorText))

\* OnErrorText without the slice of the error body.
OnErrorText_NoSlice(l) ==
    LET c == ResponseText(l.response)
        message == HttpErrorMessage(l.response.status)
        errorText == IF c.threw THEN message ELSE message \o ": " \o c.text
        l1 == ConsoleError([l EXCEPT !.response = c.response], errorText)
    IN  Return(l1, UpstreamErrorEnvelope(message, l.response.status, errorText))

\* OnErrorText that goes on with an empty body when the read fails.
OnErrorText_EmptyOnFailure(l) ==
    LET c == ResponseText(l.response)
        message == HttpErrorMessage(l.response.status)
        errorText == message \o ": " \o Slice(c.text, HttpErrorBodyCap)
        l1 == ConsoleError([l EXCEPT !.response = c.response], errorText)
    IN  Return(l1, UpstreamErrorEnvelope(message, l.response.status, errorText))

\* The !response.ok branch after await response.text() settled.
OnErrorText(l) ==
    LET c == ResponseText(l.response)
        message == HttpErrorMessage(l.response.status)
        errorText == IF c.threw THEN message
                     ELSE message \o ": " \o Slice(c.text, HttpErrorBodyCap)
        l1 == ConsoleError([l EXCEPT !.response = c.response], errorText)
    IN  Return(l1, UpstreamErrorEnvelope(message, l.response.status, errorText))

\* value.errors of a value that is neither null nor undefined.
ErrorsOf(value) == IF Tag(value) = "obj" THEN Get(value, "errors") ELSE JUndefined

\* After await response.json() settled: the catch clause starts the text read,
\* otherwise the parsed body is looked at for the log and returned.
OnJson(l) ==
    LET c == ResponseJson(l.response)
        l1 == [l EXCEPT !.response = c.response]
    IN  IF c.threw THEN [l1 EXCEPT !.pc = "text"]
        ELSE IF Tag(c.val) \in {"null", "undefined"}
        THEN Throw(l1, "errors", NullPropertyError)
        ELSE IF Truthy(ErrorsOf(c.val))
        THEN Return(ConsoleError(l1, "NCI GDC API GraphQL errors: "
                                     \o Slice(JSONStringify(ErrorsOf(c.val)),
                                              GraphQLErrorsLogCap)),
                    c.val)
        ELSE Return(l1, c.val)

\* The catch clause of the JSON parse after await response.text() settled.
OnText(l) ==
    LET c == ResponseText(l.response)
        l1 == [l EXCEPT !.response = c.response]
    IN  IF c.threw THEN Throw(l1, "text", c.error)
        ELSE Return(ConsoleError(l1, "NCI GDC API response is not JSON. Status: "
                                     \o NumberToString(l.response.status) \o ", Body: "
                                     \o Slice(c.text, NonJsonLogCap)),
                    UpstreamErrorEnvelope(NonJsonMessage, l.response.status,
                                          Slice(c.text, NonJsonBodyCap)))

\* ToolResult with the compact JSON text.
ToolResult_Compact(value) ==
    JObj(<< <<"content",
              JArr(<< JObj(<< <<"type", JStr("text")>>,
                              <<"text", JStr(JSONStringify(value))>> >>) >>)>> >>)

\* { content: [ { type: "text", text: JSON.stringify(result, null, 2) } ] }
ToolResult(value) ==
    JObj(<< <<"content",
              JArr(<< JObj(<< <<"type", JStr("text")>>,
                              <<"text", JStr(JSONStringifyIndented(value, "", Gap(2)))>> >>) >>)>> >>)

\* The tool callback after its await of the relay: when the relay has returned, the
\* callback returns the tool result made of the relay's value; while the relay is
\* pending, and when its promise rejected, the callback returns nothing.
HandlerExit(l) ==
    IF l.pc = "done" THEN [l EXCEPT !.output = ToolResult(l.result)] ELSE l

(***************************************************************************)
(* Actions                                                                 *)
(***************************************************************************)
\* A caller invokes gdc_graphql_query: the callback logs and calls the relay,
\* which runs to its await of fetch.
Invoke(i) ==
    /\ pc[i] \in {"idle", "done", "raised"}
    /\ calls[i] < MaxCalls
    /\ \E q \in Queries, v \in VariablesInputs :
          Store(i, RelayEntry(HandlerEntry(Fresh(q, v))))
    /\ calls' = [calls EXCEPT ![i] = @ + 1]
    /\ UNCHANGED routeVars

\* The HTTP call fails.
FetchRejects(i) ==
    /\ pc[i] = "fetch"
    /\ \E e \in TransportFailures : Store(i, HandlerExit(OnFetchRejected(Local(i), e)))
    /\ UNCHANGED <<calls, routeVars>>

\* The HTTP call delivers a response.
FetchResolves(i) ==
    /\ pc[i] = "fetch"
    /\ \E r \in Responses : Store(i, HandlerExit(OnFetchResolved(Local(i), r)))
    /\ UNCHANGED <<calls, routeVars>>

\* The text read of a non-2xx response settles.
ReadErrorText(i) ==
    /\ pc[i] = "errorText"
    /\ Store(i, HandlerExit(OnErrorText(Local(i))))
    /\ UNCHANGED <<calls, routeVars>>

\* The JSON read of a 2xx response settles.
ReadJson(i) ==
    /\ pc[i] = "json"
    /\ Store(i, HandlerExit(OnJson(Local(i))))
    /\ UNCHANGED <<calls, routeVars>>

\* The text read that follows a failed JSON read settles.
ReadText(i) ==
    /\ pc[i] = "text"
    /\ Store(i, HandlerExit(OnText(Local(i))))
    /\ UNCHANGED <<calls, routeVars>>

Next ==
    \E i \in Procs :
        \/ Invoke(i)
        \/ FetchRejects(i)
        \/ FetchResolves(i)
        \/ ReadErrorText(i)
        \/ ReadJson(i)
        \/ ReadText(i)

Spec == Init /\ [][Next]_vars

(***************************************************************************)
(* Several invocations in flight on one agent.  Every await of the relay   *)
(* gives the event loop the chance to run another invocation, so the steps *)
(* of the callers interleave in any order.  Each caller invokes once.      *)
(***************************************************************************)
NumCallers == 2

Callers == 1 .. NumCallers

ConcQueries == {"{ projects { hits { total } } }", "{ viewer { id } }"}

ConcVariables == {JUndefined, JObj(<< <<"first", JNum(5)>> >>)}

ConcFailures == {ErrorObject("fetch failed")}

ConcResponses ==
    {MakeResponse(200, TRUE, "{\"data\":{\"total\":5}}", FALSE),
     MakeResponse(200, TRUE, "not json", FALSE),
     MakeResponse(500, TRUE, "server exploded", FALSE),
     MakeResponse(500, TRUE, "", FALSE),
     MakeResponse(500, TRUE, "", TRUE),
     MakeResponse(204, FALSE, "", FALSE)}

InitConc == InitOf(Callers)

InvokeOnce(i) ==
    /\ pc[i] = "idle"
    /\ \E q \in ConcQueries, v \in ConcVariables :
          Store(i, RelayEntry(HandlerEntry(Fresh(q, v))))
    /\ calls' = [calls EXCEPT ![i] = @ + 1]
    /\ UNCHANGED routeVars

FetchRejectsConc(i) ==
    /\ pc[i] = "fetch"
    /\ \E e \in ConcFailures : Store(i, HandlerExit(OnFetchRejected(Local(i), e)))
    /\ UNCHANGED <<calls, routeVars>>

FetchResolvesConc(i) ==
    /\ pc[i] = "fetch"
    /\ \E r \in ConcResponses : Store(i, HandlerExit(OnFetchResolved(Local(i), r)))
    /\ UNCHANGED <<calls, routeVars>>

NextConc ==
    \E i \in Callers :
        \/ InvokeOnce(i)
        \/ FetchRejectsConc(i)
        \/ FetchResolvesConc(i)
        \/ ReadErrorText(i)
        \/ ReadJson(i)
        \/ ReadText(i)

SpecConc == InitConc /\ [][NextConc]_vars

(***************************************************************************)
(* One caller under a fair HTTP layer.  The relay has no timer and starts  *)
(* nothing of its own while it waits, so an invocation moves only when the *)
(* HTTP layer settles what it awaits: the fetch settles with a response or *)
(* a failure, and a body read that was started settles (the body arrives   *)
(* to its end or its stream errors).  Once a promise is settled the event  *)
(* loop runs the continuation.  The caller is not obliged to invoke.       *)
(***************************************************************************)
InvokeAgain(i) ==
    /\ pc[i] \in {"idle", "done", "raised"}
    /\ calls[i] < MaxCalls
    /\ \E q \in ConcQueries, v \in ConcVariables :
          Store(i, RelayEntry(HandlerEntry(Fresh(q, v))))
    /\ calls' = [calls EXCEPT ![i] = @ + 1]
    /\ UNCHANGED routeVars

NextLive ==
    \E i \in Procs :
        \/ InvokeAgain(i)
        \/ FetchRejectsConc(i)
        \/ FetchResolvesConc(i)
        \/ ReadErrorText(i)
        \/ ReadJson(i)
        \/ ReadText(i)

Delivery(i) ==
    /\ WF_vars(FetchRejectsConc(i) \/ FetchResolvesConc(i))
    /\ WF_vars(ReadErrorText(i))
    /\ WF_vars(ReadJson(i))
    /\ WF_vars(ReadText(i))

SpecLive == Init /\ [][NextLive]_vars /\ \A i \in Procs : Delivery(i)

(***************************************************************************)
(* Requests to the Worker.  Each request is given to the fetch handler of  *)
(* every source variant, so that their answers stand side by side.         *)
(***************************************************************************)
Request(u) ==
    /\ requestUrl' = u
    /\ reply' = [v \in Variants |-> FetchOf(v, u)]
    /\ UNCHANGED relayVars

NextRoute == \E u \in Urls : Request(u)

SpecRoute == Init /\ [][NextRoute]_vars

(***************************************************************************)
(* Properties of the relay                                                 *)
(***************************************************************************)
\* The single error of an envelope { errors: [ error ] }.
IsErrorEnvelope(v) ==
    /\ Tag(v) = "obj"
    /\ ObjectKeys(v) = <<"errors">>
    /\ Tag(Get(v, "errors")) = "arr"
    /\ Len(Payload(Get(v, "errors"))) >= 1

TheError(v) == Payload(Get(v, "errors"))[1]

\* The upstream body as it arrived: readable to its end, and what it parses to.
BodyArrives(r) == r.status # 0 /\ ~r.readFails

BodyText(r) == IF r.hasBody THEN r.text ELSE ""

ParsesAsJson(r) == BodyArrives(r) /\ JSONParse(BodyText(r)).ok

\* C1: the relay never raises.  Whatever the query, the variables and the upstream
\* outcome, no exception leaves executeNciGdcGraphQLQuery, and what it returns is
\* the parsed upstream JSON or an envelope with an errors array.
C1_NeverRaises ==
    \A i \in Procs :
        /\ pc[i] # "raised"
        /\ pc[i] = "done" =>
              \/ IsErrorEnvelope(result[i])
              \/ /\ ParsesAsJson(response[i])
                 /\ result[i] = JSONParse(BodyText(response[i])).val

\* C1 witness: a 2xx response whose body stream failed in the JSON read and again in
\* the text read, and the relay returned an envelope all the same.
C1_Witness ==
    \E i \in Procs :
        /\ pc[i] = "done"
        /\ ResponseOk(response[i])
        /\ response[i].readFails
        /\ response[i].bodyUsed
        /\ IsErrorEnvelope(result[i])

\* C2: a 2xx response whose body parses as JSON is returned as the parsed value,
\* unmodified, with or without an errors field in it.
C2_PassThrough ==
    \A i \in Procs :
        (pc[i] = "done" /\ ResponseOk(response[i]) /\ ParsesAsJson(response[i]))
            => result[i] = JSONParse(BodyText(response[i])).val

\* C3: a 2xx response whose body does not parse as JSON gives the Non-JSON envelope:
\* its message names the non-JSON response, extensions.statusCode is the status
\* received and extensions.responseText is the first 1000 characters of the body.
\* The message is compared from "Error: Non-JSON response." on, so that the name the
\* message gives the upstream service does not decide the property.
EndsWith(s, p) == Len(s) >= Len(p) /\ SubSeq(s, Len(s) - Len(p) + 1, Len(s)) = p

C3_NonJsonEnvelope ==
    \A i \in Procs :
        (pc[i] = "done" /\ ResponseOk(response[i]) /\ BodyArrives(response[i])
            /\ ~JSONParse(BodyText(response[i])).ok)
            => /\ IsErrorEnvelope(result[i])
               /\ Tag(Get(TheError(result[i]), "message")) = "str"
               /\ EndsWith(Payload(Get(TheError(result[i]), "message")),
                           "Error: Non-JSON response.")
               /\ Get(TheError(result[i]), "extensions")
                    = JObj(<< <<"statusCode", JNum(response[i].status)>>,
                              <<"responseText",
                                JStr(Slice(BodyText(response[i]), NonJsonBodyCap))>> >>)

\* The parts of a returned envelope.
MessageOf(v) == Get(TheError(v), "message")

ExtensionsOf(v) == Get(TheError(v), "extensions")

ResponseTextOf(v) == Payload(Get(ExtensionsOf(v), "responseText"))

\* The invocation returned after a non-2xx response arrived.
HttpErrorReturned(i) ==
    pc[i] = "done" /\ response[i].status # 0 /\ ~ResponseOk(response[i])

\* The body of a response as the text read of the error branch gets it: empty when
\* the read fails.
BodyAsRead(r) == IF r.readFails THEN "" ELSE BodyText(r)

\* C4 as stated: a non-2xx response gives an envelope with exactly one error, whose
\* message is "Upstream HTTP Error <status>", whose extensions.statusCode is the
\* status and whose extensions.responseText is that message followed by the first
\* 500 characters of the body.
C4_UpstreamHttpError ==
    \A i \in Procs :
        HttpErrorReturned(i) =>
            /\ IsErrorEnvelope(result[i])
            /\ Len(Payload(Get(result[i], "errors"))) = 1
            /\ MessageOf(result[i])
                 = JStr("Upstream HTTP Error " \o NumberToString(response[i].status))
            /\ Get(ExtensionsOf(result[i]), "statusCode") = JNum(response[i].status)
            /\ Get(ExtensionsOf(result[i]), "responseText")
                 = JStr("Upstream HTTP Error " \o NumberToString(response[i].status)
                        \o Slice(BodyAsRead(response[i]), 500))

\* C4 amended: a non-2xx response gives an envelope with exactly one error, whose
\* message is "NCI GDC API HTTP Error <status>", whose extensions.statusCode is the
\* status and whose extensions.responseText is that message followed by ": " and the
\* first 500 characters of the body, or the message alone when the body read fails.
C4_HttpErrorEnvelope ==
    \A i \in Procs :
        HttpErrorReturned(i) =>
            /\ IsErrorEnvelope(result[i])
            /\ Len(Payload(Get(result[i], "errors"))) = 1
            /\ ObjectKeys(TheError(result[i])) = <<"message", "extensions">>
            /\ MessageOf(result[i])
                 = JStr("NCI GDC API HTTP Error " \o NumberToString(response[i].status))
            /\ ObjectKeys(ExtensionsOf(result[i])) = <<"statusCode", "responseText">>
            /\ Get(ExtensionsOf(result[i]), "statusCode") = JNum(response[i].status)
            /\ ResponseTextOf(result[i])
                 = IF response[i].readFails
                   THEN Payload(MessageOf(result[i]))
                   ELSE Payload(MessageOf(result[i])) \o ": "
                        \o Slice(BodyText(response[i]), 500)

\* C4 witness: status 500 with the body "server exploded" has been answered with the
\* envelope whose responseText carries the message and the body.
C4_Witness ==
    \E i \in Procs :
        /\ HttpErrorReturned(i)
        /\ response[i].status = 500
        /\ response[i].text = "server exploded"
        /\ ResponseTextOf(result[i]) = "NCI GDC API HTTP Error 500: server exploded"

\* The description of what fetch rejected with: an Error's message, a thrown string,
\* a thrown number in decimal.
FailureDescription(f) ==
    IF Tag(f) = "num" THEN NumberToString(Payload(f)) ELSE Payload(f)

\* C5: when the HTTP call itself fails, the relay returns an envelope with exactly
\* one error, whose message is "Client-side error: " followed by the description of
\* the failure and which has no extensions key.
C5_TransportFailure ==
    \A i \in Procs :
        (pc[i] = "done" /\ failure[i] # NoFailure) =>
            /\ IsErrorEnvelope(result[i])
            /\ Len(Payload(Get(result[i], "errors"))) = 1
            /\ MessageOf(result[i])
                 = JStr("Client-side error: " \o FailureDescription(failure[i]))
            /\ ~HasKey(TheError(result[i]), "extensions")

\* C5 witness: the connection was lost and the relay returned the client-side
\* envelope for it.
C5_Witness ==
    \E i \in Procs :
        /\ pc[i] = "done"
        /\ failure[i] = ErrorObject("Network connection lost.")
        /\ MessageOf(result[i]) = JStr("Client-side error: Network connection lost.")

\* The body of the request an invocation handed to fetch, as text and parsed.
SentBody(i) == sent[i][1].body

SentJson(i) == JSONParse(SentBody(i))

NoVariables(v) == v = JUndefined \/ v = JObj(<<>>)

\* C6: with variables absent or an empty mapping the outbound body has no variables
\* key, and it is the same text in both cases: the query member alone.
C6_VariablesOmitted ==
    \A i \in Procs :
        (Len(sent[i]) > 0 /\ NoVariables(variables[i])) =>
            /\ SentJson(i).ok
            /\ ~HasKey(SentJson(i).val, "variables")
            /\ SentBody(i) = "{\"query\":" \o Quote(query[i]) \o "}"

\* C6 witness: a request has been sent for an invocation whose variables are an
\* empty mapping.
C6_Witness ==
    \E i \in Procs :
        /\ Len(sent[i]) > 0
        /\ variables[i] = JObj(<<>>)
        /\ ObjectKeys(SentJson(i).val) = <<"query">>

\* C7: with a non-empty variables mapping the outbound body's variables member
\* equals the input mapping, key for key and value for value, and its query
\* member is the input query string.
C7_VariablesVerbatim ==
    \A i \in Procs :
        (Len(sent[i]) > 0 /\ ~NoVariables(variables[i])) =>
            /\ SentJson(i).ok
            /\ ObjectKeys(SentJson(i).val) = <<"query", "variables">>
            /\ Get(SentJson(i).val, "variables") = variables[i]
            /\ Get(SentJson(i).val, "query") = JStr(query[i])

\* C7 witness: a request has been sent whose variables hold a nested filter with a
\* quoted string in it, for a query with a line break and a backslash.
C7_Witness ==
    \E i \in Procs :
        /\ Len(sent[i]) > 0
        /\ Tag(variables[i]) = "obj"
        /\ HasKey(variables[i], "filters")
        /\ FirstIndex(query[i], {"\n"}) > 0
        /\ Get(SentJson(i).val, "variables") = variables[i]

\* C8: an invocation issues exactly one HTTP POST: one request is handed to fetch
\* when the invocation starts, and none is added until it has returned, whatever
\* the outcome of the first.
C8_ExactlyOnePost ==
    \A i \in Procs :
        /\ Len(sent[i]) <= 1
        /\ pc[i] # "idle" => (Len(sent[i]) = 1 /\ sent[i][1].method = "POST")

\* C8 witness: the relay has returned after a transport failure, after a non-2xx
\* status or after a body that is not JSON, with one request sent.
C8_Witness ==
    \E i \in Procs :
        /\ pc[i] = "done"
        /\ Len(sent[i]) = 1
        /\ \/ failure[i] # NoFailure
           \/ response[i].status = 500
           \/ (response[i].status = 200 /\ response[i].text = "not json")

\* The invocation returned an envelope after a 2xx response arrived.
NonJsonReturned(i) ==
    /\ pc[i] = "done"
    /\ ResponseOk(response[i])
    /\ IsErrorEnvelope(result[i])
    /\ HasKey(TheError(result[i]), "extensions")

\* C9 as stated: extensions.responseText is at most 500 characters long on the
\* HTTP-error path and at most 1000 on the non-JSON path.
C9_ResponseTextCapped ==
    \A i \in Procs :
        /\ HttpErrorReturned(i) => Len(ResponseTextOf(result[i])) <= 500
        /\ NonJsonReturned(i) => Len(ResponseTextOf(result[i])) <= 1000

\* C9 amended: on the HTTP-error path extensions.responseText is at most the
\* message, the two characters ": " and 500 characters of the body; on the
\* non-JSON path it is at most 1000 characters.
C9_ResponseTextBounded ==
    \A i \in Procs :
        /\ HttpErrorReturned(i) =>
              Len(ResponseTextOf(result[i]))
                 <= Len(Payload(MessageOf(result[i]))) + 2 + 500
        /\ NonJsonReturned(i) => Len(ResponseTextOf(result[i])) <= 1000

\* C9 witness: a non-2xx response with a body of more than 500 characters has been
\* answered with a responseText of the message, ": " and 500 characters.
C9_Witness ==
    \E i \in Procs :
        /\ HttpErrorReturned(i)
        /\ Len(response[i].text) > 500
        /\ Len(ResponseTextOf(result[i]))
              = Len(Payload(MessageOf(result[i]))) + 2 + 500

\* C10: truncation keeps a prefix of the body.  On the HTTP-error path responseText
\* is the message prefix followed by the first min(n, 500) characters of the body;
\* on the non-JSON path responseText is the first min(n, 1000) characters of the
\* body.
C10_TruncationExact ==
    \A i \in Procs :
        /\ (HttpErrorReturned(i) /\ BodyArrives(response[i])) =>
              /\ StartsWith(ResponseTextOf(result[i]), Payload(MessageOf(result[i])))
              /\ EndsWith(ResponseTextOf(result[i]), Slice(BodyText(response[i]), 500))
              /\ Len(ResponseTextOf(result[i]))
                    = Len(Payload(MessageOf(result[i]))) + 2
                      + Min(Len(BodyText(response[i])), 500)
        /\ (pc[i] = "done" /\ ResponseOk(response[i]) /\ BodyArrives(response[i])
              /\ ~JSONParse(BodyText(response[i])).ok) =>
              /\ IsErrorEnvelope(result[i])
              /\ HasKey(TheError(result[i]), "extensions")
              /\ ResponseTextOf(result[i]) = Slice(BodyText(response[i]), 1000)

(***************************************************************************)
(* Properties of concurrent invocations                                    *)
(***************************************************************************)
\* What one invocation holds: the callback's arguments and the relay's locals.
Invocation(i) ==
    [pc |-> pc[i], query |-> query[i], variables |-> variables[i], sent |-> sent[i],
     failure |-> failure[i], response |-> response[i], result |-> result[i],
     log |-> log[i], calls |-> calls[i], output |-> output[i]]

\* The upstream outcome of an invocation's own request, as the HTTP layer delivered it.
OwnOutcome(i) ==
    <<failure[i], response[i].status, response[i].hasBody, response[i].text,
      response[i].readFails>>

SameInputsAndOutcome(i, j) ==
    /\ query[i] = query[j]
    /\ variables[i] = variables[j]
    /\ OwnOutcome(i) = OwnOutcome(j)

\* A step is taken by one invocation and leaves what the others hold as it was.
StepOfOne ==
    \E i \in DOMAIN pc :
        \A j \in DOMAIN pc \ {i} : Invocation(j)' = Invocation(j)

ResultsDetermined ==
    \A i, j \in DOMAIN pc :
        (pc[i] = "done" /\ pc[j] = "done" /\ SameInputsAndOutcome(i, j))
            => result[i] = result[j]

\* C11: with several invocations in flight on one agent, in every interleaving of
\* their steps a step of one invocation changes nothing another invocation holds,
\* and two invocations with the same query, the same variables and the same
\* upstream outcome of their own request return the same result whatever the
\* other did in between.
C11_Independent == [][StepOfOne]_vars /\ []ResultsDetermined

\* Two invocations are in flight at once, each past its own fetch with its own
\* response, and they differ in query, variables and response.
C11_Witness ==
    /\ pc[1] = "text"
    /\ pc[2] = "errorText"
    /\ query[1] # query[2]
    /\ variables[1] # variables[2]
    /\ response[1].status = 200
    /\ response[2].status = 500

(***************************************************************************)
(* Properties of the tool callback                                         *)
(***************************************************************************)
\* The content items of a tool result.
ContentOf(v) == Payload(Get(v, "content"))

\* A tool result with one content item, of type "text", carrying a string.
IsSingleText(v) ==
    /\ Tag(v) = "obj"
    /\ ObjectKeys(v) = <<"content">>
    /\ Tag(Get(v, "content")) = "arr"
    /\ Len(ContentOf(v)) = 1
    /\ Tag(ContentOf(v)[1]) = "obj"
    /\ ObjectKeys(ContentOf(v)[1]) = <<"type", "text">>
    /\ Get(ContentOf(v)[1], "type") = JStr("text")
    /\ Tag(Get(ContentOf(v)[1], "text")) = "str"

TextOf(v) == Payload(Get(ContentOf(v)[1], "text"))

\* An object or array with something in it is written over several lines, its
\* members indented by two spaces and its closing bracket on a line of its own.
IsIndented(text, value) ==
    CASE Tag(value) = "obj" /\ WrittenMembers(Payload(value)) # <<>> ->
            StartsWith(text, "{\n  \"") /\ EndsWith(text, "\n}")
      [] Tag(value) = "arr" /\ Payload(value) # <<>> ->
            StartsWith(text, "[\n  ") /\ EndsWith(text, "\n]")
      [] OTHER -> text = JSONStringify(value)

\* C12: whatever the relay returns, the callback returns one content item of type
\* "text" whose text is the relay's result as indented JSON; the callback adds
\* nothing of its own, and parsing the text gives back the relay's result.
C12_SingleTextItem ==
    \A i \in Procs :
        pc[i] = "done"
            => /\ IsSingleText(output[i])
               /\ IsIndented(TextOf(output[i]), result[i])
               /\ JSONParse(TextOf(output[i])).ok
               /\ JSONParse(TextOf(output[i])).val = result[i]

\* The callback returned a passed-through upstream body with nested members.
C12_Witness ==
    /\ pc[1] = "done"
    /\ ~IsErrorEnvelope(result[1])
    /\ Tag(result[1]) = "obj"
    /\ HasKey(result[1], "data")
    /\ Tag(Get(result[1], "data")) = "obj"
    /\ IsSingleText(output[1])

(***************************************************************************)
(* The relay with its logging statements taken out: every console.error    *)
(* and the if statement that looks at responseBody.errors for the log.     *)
(***************************************************************************)
\* The response as fetch delivered it, its body not yet read.
AsDelivered(r) == [r EXCEPT !.bodyUsed = FALSE]

QuietErrorBranch(r, c) ==
    UpstreamErrorEnvelope(HttpErrorMessage(r.status), r.status,
                          IF c.threw THEN HttpErrorMessage(r.status)
                          ELSE HttpErrorMessage(r.status) \o ": "
                               \o Slice(c.text, HttpErrorBodyCap))

QuietTextBranch(r, c) ==
    IF c.threw THEN ClientErrorEnvelope(ErrorMessageOf(c.error))
    ELSE UpstreamErrorEnvelope(NonJsonMessage, r.status, Slice(c.text, NonJsonBodyCap))

QuietJsonBranch(r, c) ==
    IF c.threw THEN QuietTextBranch(r, ResponseText(c.response)) ELSE c.val

QuietResult(f, r) ==
    IF f # NoFailure THEN ClientErrorEnvelope(ErrorMessageOf(f))
    ELSE IF ~ResponseOk(r) THEN QuietErrorBranch(r, ResponseText(r))
    ELSE QuietJsonBranch(r, ResponseJson(r))

\* C13: the logging never changes what the relay returns.  For every input and
\* every upstream outcome the value returned is the value the relay returns with
\* its logging statements removed, the look at the parsed body's errors included,
\* and no logging statement throws.
C13_LoggingInert ==
    \A i \in Procs :
        pc[i] = "done" => result[i] = QuietResult(failure[i], AsDelivered(response[i]))

(***************************************************************************)
(* Properties of the pending invocation                                    *)
(***************************************************************************)
\* The HTTP layer settled the fetch of invocation i in this step.
FetchSettles(i) ==
    /\ pc[i] = "fetch"
    /\ \/ failure'[i] # NoFailure
       \/ response'[i].status # 0

\* While its fetch is pending an invocation does nothing: no timeout ends it, no
\* request is sent again, nothing is returned.  It leaves the await only when the
\* fetch settles.
PendingUntilSettled ==
    \A i \in Procs :
        pc[i] = "fetch"
            => \/ Invocation(i)' = Invocation(i)
               \/ FetchSettles(i) /\ pc'[i] # "fetch" /\ sent'[i] = sent[i]

\* C14: the relay has no timeout, retry or cancellation.  After the request is sent
\* the invocation stays pending until the HTTP layer delivers a response or a
\* failure, and if the HTTP layer delivers, the invocation returns a result.
C14_ReturnsOnceDelivered ==
    /\ [][PendingUntilSettled]_vars
    /\ \A i \in Procs : (pc[i] = "fetch") ~> (pc[i] = "done" /\ result[i] # NoResult)

\* An invocation returned after a response arrived, having sent its one request.
C14_Witness ==
    /\ pc[1] = "done"
    /\ response[1].status = 200
    /\ response[1].bodyUsed
    /\ Len(sent[1]) = 1
    /\ result[1] # NoResult

(***************************************************************************)
(* Properties of the fetch handler                                         *)
(***************************************************************************)
Contains(s, part) ==
    \E k \in 1 .. (Len(s) - Len(part) + 1) : SubSeq(s, k, k + Len(part) - 1) = part

\* The variants of the handler in src/src/index.ts and src/unnamed/part_000.
RoutingVariants == {"index.ts", "part_000"}

\* The fixed answer to a path that is not served: status 404, plain text, naming
\* the two paths, and the request given to no transport.
IsFixedNotFound(r) ==
    /\ r.transport = "none"
    /\ r.status = 404
    /\ r.headers = << <<"Content-Type", "text/plain">> >>
    /\ r.body = NotFoundText
    /\ Contains(r.body, "- /mcp ")
    /\ Contains(r.body, "- /sse ")

\* C15 as stated: exactly one path, /mcp, is served by the streamable HTTP transport
\* and exactly one, /sse, by the event-stream transport; a request for any other
\* path gets the fixed plaintext 404 and is handed to neither transport.
C15_TwoPathsOnly ==
    \A v \in RoutingVariants :
        requestUrl # ""
            => CASE PathnameOf(requestUrl) = "/mcp" -> reply[v] = HandedTo("serve")
                 [] PathnameOf(requestUrl) = "/sse" -> reply[v] = HandedTo("serveSSE")
                 [] OTHER -> IsFixedNotFound(reply[v])

UnderPath(pathname, base) == pathname = base \/ StartsWith(pathname, base \o "/")

\* C15, amended: the path /mcp and every path under /mcp/ is handed to the
\* streamable HTTP transport, the path /sse and every path under /sse/ to the
\* event-stream transport; a request for any other path gets the fixed plaintext
\* 404 that lists the two paths and is handed to neither transport.
C15_TwoPathPrefixes ==
    \A v \in RoutingVariants :
        requestUrl # ""
            => CASE UnderPath(PathnameOf(requestUrl), "/mcp") ->
                        reply[v] = HandedTo("serve")
                 [] UnderPath(PathnameOf(requestUrl), "/sse") ->
                        reply[v] = HandedTo("serveSSE")
                 [] OTHER -> IsFixedNotFound(reply[v])

\* A request for a path under /sse/, its URL carrying a query, went to the
\* event-stream transport.
C15_Witness ==
    /\ requestUrl = "http://localhost:8787/sse/message?next=/sse/#/mcp"
    /\ reply["index.ts"].transport = "serveSSE"
    /\ reply["part_000"].transport = "serveSSE"

(***************************************************************************)
(* Properties of the outbound request                                      *)
(***************************************************************************)
\* The requests the invocations in flight or finished have handed to fetch.
AllSent == UNION {{sent[i][k] : k \in 1 .. Len(sent[i])} : i \in DOMAIN sent}

HeaderNames(req) == {req.headers[k][1] : k \in 1 .. Len(req.headers)}

\* Header names that carry credentials.
CredentialHeaders == {"Authorization", "Proxy-Authorization", "Cookie", "X-Auth-Token",
                      "X-API-Key", "authorization", "cookie"}

\* C16: every outbound request is a POST to the one fixed endpoint, with the same
\* three headers and no header that carries credentials; the URL has no query
\* part, and two requests, of whatever invocations, differ in the body only.
C16_SameRequestButBody ==
    /\ \A req \in AllSent :
          /\ req.method = "POST"
          /\ req.url = "https://api.gdc.cancer.gov/v0/graphql"
          /\ ~Contains(req.url, "?")
          /\ HeaderNames(req) = {"Content-Type", "Accept", "User-Agent"}
          /\ Len(req.headers) = 3
          /\ HeaderNames(req) \cap CredentialHeaders = {}
    /\ \A a, b \in AllSent :
          /\ a.url = b.url
          /\ a.method = b.method
          /\ a.headers = b.headers

\* Two invocations have sent requests whose bodies differ.
C16_Witness ==
    /\ Len(sent[1]) = 1
    /\ Len(sent[2]) = 1
    /\ sent[1][1].body # sent[2][1].body
    /\ query[1] # query[2]
    /\ variables[1] # variables[2]

(***************************************************************************)
(* Properties of the source variants                                       *)
(***************************************************************************)
\* What a client of the Worker sees of the handling of its request: the transport
\* it reached or the response it got.  The handler's log line is not part of it.
Answer(r) == <<r.transport, r.status, r.headers, r.body>>

\* C17: the three source variants behave alike.  Their fetch handlers route every
\* request the same way: the same requests reach the streamable HTTP transport, the
\* same reach the event-stream transport, and the others get the same 404 response.
\* (The callback and the relay are the same text in the three variants, so that the
\* relay of this model is the relay of each of them.)
C17_VariantsAgree ==
    \A v, w \in Variants :
        /\ Answer(reply[v]) = Answer(reply[w])
        /\ (reply[v].log = <<>>) = (reply[w].log = <<>>)

\* A request for a path no variant serves: the three answer with the same 404,
\* while the log line of part_000 is worded differently.
C17_Witness ==
    /\ PathnameOf(requestUrl) = "/mcpx/message"
    /\ \A v \in Variants : reply[v].status = 404
    /\ reply["part_000"].log # reply["index.ts"].log
    /\ reply["CITATION.md"].log = reply["index.ts"].log

(***************************************************************************)
(* Properties of a failed read of an error body                            *)
(***************************************************************************)
\* Invocation i returned after a non-2xx response whose body could not be read;
\* invocation j returned after a non-2xx response of the same status whose body
\* is empty.
FailedReadAndEmptyBody(i, j) ==
    /\ HttpErrorReturned(i)
    /\ HttpErrorReturned(j)
    /\ response[i].status = response[j].status
    /\ response[i].readFails
    /\ ~response[j].readFails
    /\ BodyText(response[j]) = ""

\* The envelope of the HTTP-error branch for the status received, not the
\* envelope of the outer catch.
IsHttpErrorEnvelopeOf(v, status) ==
    /\ IsErrorEnvelope(v)
    /\ Len(Payload(Get(v, "errors"))) = 1
    /\ MessageOf(v) = JStr(HttpErrorMessage(status))
    /\ ~StartsWith(Payload(MessageOf(v)), "Client-side error")
    /\ HasKey(TheError(v), "extensions")
    /\ Get(ExtensionsOf(v), "statusCode") = JNum(status)

\* C18 as stated: when the read of a non-2xx response's body fails the relay still
\* returns the HTTP-error envelope, and it is the very envelope it returns for a
\* response of the same status with an empty body.
C18_SameAsEmptyBody ==
    \A i, j \in DOMAIN pc :
        FailedReadAndEmptyBody(i, j)
            => /\ IsHttpErrorEnvelopeOf(result[i], response[i].status)
               /\ result[i] = result[j]

\* C18, amended: when the read fails the relay still returns the HTTP-error
\* envelope, with the message and the statusCode of the status received; its
\* responseText is the error message alone, where an empty body gives the message
\* followed by ": ".  In everything else the two envelopes are equal.
C18_MessageAlone ==
    \A i, j \in DOMAIN pc :
        FailedReadAndEmptyBody(i, j)
            => /\ IsHttpErrorEnvelopeOf(result[i], response[i].status)
               /\ IsHttpErrorEnvelopeOf(result[j], response[j].status)
               /\ MessageOf(result[i]) = MessageOf(result[j])
               /\ ObjectKeys(ExtensionsOf(result[i])) = ObjectKeys(ExtensionsOf(result[j]))
               /\ ResponseTextOf(result[i]) = HttpErrorMessage(response[i].status)
               /\ ResponseTextOf(result[j]) = ResponseTextOf(result[i]) \o ": "

\* One invocation returned after a failed read of a 500 response's body, another
\* after a 500 response with an empty body.
C18_Witness ==
    /\ FailedReadAndEmptyBody(1, 2)
    /\ response[1].status = 500
    /\ response[1].bodyUsed
    /\ response[2].bodyUsed

(***************************************************************************)
(* Properties of the classification                                        *)
(***************************************************************************)
\* The four outcomes, told apart by what was returned.
IsClientSideEnvelope(v) ==
    /\ IsErrorEnvelope(v)
    /\ Len(Payload(Get(v, "errors"))) = 1
    /\ ObjectKeys(TheError(v)) = <<"message">>
    /\ Tag(MessageOf(v)) = "str"
    /\ StartsWith(Payload(MessageOf(v)), "Client-side error: ")

IsNonJsonEnvelopeOf(v, status) ==
    /\ IsErrorEnvelope(v)
    /\ Len(Payload(Get(v, "errors"))) = 1
    /\ MessageOf(v) = JStr(NonJsonMessage)
    /\ HasKey(TheError(v), "extensions")
    /\ Get(ExtensionsOf(v), "statusCode") = JNum(status)

IsPassedThrough(v, r) ==
    /\ ResponseOk(r)
    /\ ParsesAsJson(r)
    /\ v = JSONParse(BodyText(r)).val

OutcomesOf(i) ==
    {k \in 1 .. 4 :
        CASE k = 1 -> IsClientSideEnvelope(result[i])
          [] k = 2 -> response[i].status # 0
                      /\ IsHttpErrorEnvelopeOf(result[i], response[i].status)
          [] k = 3 -> response[i].status # 0
                      /\ IsNonJsonEnvelopeOf(result[i], response[i].status)
          [] k = 4 -> response[i].status # 0 /\ IsPassedThrough(result[i], response[i])}

\* C19: the classification goes by strict priority and every invocation ends in
\* exactly one of the four outcomes.  A failed HTTP call gives the client-side
\* envelope; a non-2xx response gives the HTTP-error envelope whatever its body,
\* valid JSON and GraphQL error responses included: that body is neither parsed nor
\* passed through; a JSON parse is started only after a success status.
C19_StrictPriority ==
    \A i \in Procs :
        /\ pc[i] = "done" => Cardinality(OutcomesOf(i)) = 1
        /\ (pc[i] = "done" /\ failure[i] # NoFailure) => OutcomesOf(i) = {1}
        /\ HttpErrorReturned(i)
              => /\ OutcomesOf(i) = {2}
                 /\ ParsesAsJson(response[i])
                       => result[i] # JSONParse(BodyText(response[i])).val
        /\ pc[i] \in {"json", "text"} => ResponseOk(response[i])
        /\ (pc[i] = "done" /\ OutcomesOf(i) \cap {3, 4} # {}) => ResponseOk(response[i])

\* A 500 response whose body is a valid GraphQL error response was answered with
\* the HTTP-error envelope.
C19_Witness ==
    /\ HttpErrorReturned(1)
    /\ response[1].status = 500
    /\ ParsesAsJson(response[1])
    /\ Truthy(ErrorsOf(JSONParse(BodyText(response[1])).val))
    /\ OutcomesOf(1) = {2}

(***************************************************************************)
(* Properties of the returned value                                        *)
(***************************************************************************)
\* An envelope the relay made itself: one error, with a message string.
IsSynthesized(v) ==
    /\ IsErrorEnvelope(v)
    /\ Len(Payload(Get(v, "errors"))) = 1
    /\ Tag(TheError(v)) = "obj"
    /\ HasKey(TheError(v), "message")
    /\ Tag(MessageOf(v)) = "str"

ResponseReceived(i) == response[i].status # 0

\* C20: every value the relay returns is the parsed upstream response or an
\* envelope of its own with exactly one error that has a message string; such an
\* envelope has extensions exactly when an HTTP response was received, and then
\* extensions.statusCode is the status of that response.
C20_ExtensionsIffResponse ==
    \A i \in Procs :
        pc[i] = "done"
            => \/ ResponseReceived(i) /\ IsPassedThrough(result[i], response[i])
               \/ /\ IsSynthesized(result[i])
                  /\ HasKey(TheError(result[i]), "extensions") <=> ResponseReceived(i)
                  /\ HasKey(TheError(result[i]), "extensions")
                        => Get(ExtensionsOf(result[i]), "statusCode")
                              = JNum(response[i].status)

(***************************************************************************)
(* Properties of the agent's state                                         *)
(***************************************************************************)
\* The invocation of a caller, run as the first invocation on a newly made agent
\* with the upstream outcome given: the callback and the relay from entry to
\* return, one stretch after the other.
FirstAfterBody(l) == HandlerExit(IF l.pc = "text" THEN OnText(l) ELSE l)

FirstAfterFetch(l) ==
    FirstAfterBody(CASE l.pc = "errorText" -> OnErrorText(l)
                     [] l.pc = "json" -> OnJson(l)
                     [] OTHER -> l)

FirstOnNewAgent(q, v, f, r) ==
    FirstAfterFetch(
        IF f # NoFailure
        THEN OnFetchRejected(RelayEntry(HandlerEntry([Fresh(q, v) EXCEPT !.this = NewAgent])), f)
        ELSE OnFetchResolved(RelayEntry(HandlerEntry([Fresh(q, v) EXCEPT !.this = NewAgent])),
                             r))

\* A step of an invocation that is under way leaves the caller's arguments alone.
ArgumentsKept ==
    \A i \in Procs :
        calls'[i] = calls[i] => (query'[i] = query[i] /\ variables'[i] = variables[i])

\* What a finished invocation leaves is what the same invocation leaves as the
\* first one on a newly made agent: the request sent, the result, the tool result,
\* the log and the arguments.
AsOnNewAgent ==
    \A i \in Procs :
        pc[i] = "done"
            => Local(i) = FirstOnNewAgent(query[i], variables[i], failure[i],
                                          AsDelivered(response[i]))

\* C21: after any sequence of invocations, successful or failed, the agent's state
\* is as it was made: the endpoint is never written and nothing of a request or a
\* response is kept; no step changes the caller's query or variables; and so an
\* invocation returns what it would return as the first invocation on a new agent.
C21_AgentUnchanged ==
    /\ [](agent = NewAgent)
    /\ [][agent' = agent /\ ArgumentsKept]_vars
    /\ []AsOnNewAgent

\* A second invocation, after a first one that failed or succeeded, has returned.
C21_Witness ==
    /\ calls[1] = 2
    /\ pc[1] = "done"
    /\ response[1].status = 200
    /\ ~IsErrorEnvelope(result[1])
    /\ agent = NewAgent

(***************************************************************************)
(* Properties of the second read of a 2xx body                             *)
(***************************************************************************)
\* The JSON read of a 2xx response with a body failed: it consumed the body, and
\* the text was not JSON or the stream broke.
JsonReadFailed(i) ==
    /\ ResponseOk(response[i])
    /\ response[i].hasBody
    /\ response[i].bodyUsed
    /\ response[i].readFails \/ ~response[i].parsed.ok

\* C22: when, after a failed JSON parse of a 2xx response, the read of the body as
\* text fails too because the parse attempt has consumed the body, the outer catch
\* takes the exception: the relay returns the "Client-side error: ..." envelope with
\* the message of the failed read and no extensions.  It does not raise and it does
\* not return the Non-JSON envelope.
C22_SecondReadCaught ==
    \A i \in Procs :
        /\ (pc[i] = "text" /\ response[i].hasBody) => JsonReadFailed(i)
        /\ JsonReadFailed(i) => pc[i] \in {"text", "done"}
        /\ (JsonReadFailed(i) /\ pc[i] = "done")
              => /\ IsClientSideEnvelope(result[i])
                 /\ result[i] = ClientErrorEnvelope(Payload(BodyUsedError))
                 /\ ~HasKey(TheError(result[i]), "extensions")
                 /\ ~IsNonJsonEnvelopeOf(result[i], response[i].status)

\* A 200 response with the body `not json`: the parse failed, the text read failed,
\* and the relay returned the client-side envelope.
C22_Witness ==
    /\ pc[1] = "done"
    /\ response[1].status = 200
    /\ response[1].text = "not json"
    /\ JsonReadFailed(1)
    /\ IsClientSideEnvelope(result[1])

=============================================================================
